---- MODULE Spec2Model ----
(***************************************************************************)
(* DataSnatch: the crawl-and-enrichment pipeline.                          *)
(*   scraper/base_scraper.py     BaseScraper (session, scrape_profiles)   *)
(*   scraper/profile_scraper.py  ProfileScraper._scrape_state / crawl_page *)
(*   analyzer/profile_analyzer.py ProfileAnalyzer (enrichment, score)      *)
(*   main.py                     DataSnatch.process_profiles               *)
(***************************************************************************)
EXTENDS Integers, Sequences, FiniteSets, TLC

\* ------------------------------------------------------------------ bounds
\* largest max_depth a ProfileScraper is constructed with
MaxDepthBound == 2
\* most anchors on one fetched page
MaxLinks == 2
\* most entries of one image_quality list
MaxImages == 2
\* image quality scores are the multiples of 1/QualitySteps in [0,1]
QualitySteps == 2
\* most states handed to scrape_profiles
MaxStates == 2

\* ------------------------------------------------------------------- URLs
\* A URL string is kept as its parts: origin (scheme+host), path and a
\* suffix ("" nothing, "/" a trailing slash, "#f" a fragment).  An anchor's
\* href is either absolute (it starts with 'http') or relative.
NONE == "<None>"

MkUrl(o, p, s) == [origin |-> o, path |-> p, suffix |-> s]

\* self.base_url: the seed, the command line's default has no path
BaseUrl == MkUrl("base", "", "")

\* hrefs that anchors of the fetched pages carry
Hrefs ==
  { [abs |-> TRUE,  origin |-> "base",  path |-> "profile1", suffix |-> ""],
    [abs |-> FALSE, origin |-> "",      path |-> "profile2", suffix |-> ""],
    [abs |-> TRUE,  origin |-> "other", path |-> "profile3", suffix |-> ""] }

\* href = f"{self.base_url.rstrip('/')}/{href.lstrip('/')}" unless it starts
\* with 'http'
Resolve(href) ==
  IF href.abs THEN MkUrl(href.origin, href.path, href.suffix)
  ELSE MkUrl(BaseUrl.origin, href.path, href.suffix)

\* href.startswith(self.base_url): a textual prefix test
StartsWithBase(url) == url.origin \in {"base", "baseprefix"}

\* 'profile' in url.lower()
IsProfileUrl(url) == url.path \in {"profile1", "profile2", "profile3"}

\* Other sites: one whose anchors name one page three ways (plainly, with a
\* trailing slash, with a fragment), one with an anchor to a foreign host
\* whose name starts with the seed URL, one with a listing page beside a
\* profile page.
MkHref(a, o, p, s) == [abs |-> a, origin |-> o, path |-> p, suffix |-> s]

SameTargetHrefs ==
  { MkHref(TRUE, "base", "profile1", ""), MkHref(TRUE, "base", "profile1", "/"),
    MkHref(FALSE, "", "profile1", "#f") }

PrefixHrefs ==
  { MkHref(TRUE, "base", "profile1", ""), MkHref(TRUE, "baseprefix", "profile2", ""),
    MkHref(TRUE, "other", "profile3", "") }

ListingHrefs ==
  { MkHref(TRUE, "base", "profile1", ""), MkHref(FALSE, "", "list", "") }

\* a site of three pages beside the seed, all under the seed URL
GraphHrefs ==
  { MkHref(TRUE, "base", "profile1", ""), MkHref(FALSE, "", "list", ""),
    MkHref(FALSE, "", "list2", "") }


RECURSIVE SeqsUpTo(_, _)
SeqsUpTo(S, n) ==
  IF n = 0 THEN {<<>>}
  ELSE LET shorter == SeqsUpTo(S, n - 1)
       IN  shorter \cup {Append(q, x) : q \in {r \in shorter : Len(r) = n - 1}, x \in S}

VARIABLES
  pc,          \* position in process_profiles and scrape_profiles
  max_depth,   \* ProfileScraper.max_depth
  session,     \* the fetch session: "none", "open", "closed"
  opened,      \* number of sessions opened so far
  states,      \* the states argument of scrape_profiles
  stateIdx,    \* index of the state being scraped
  visited_urls,\* _scrape_state's visited_urls
  stack,       \* the crawl_page activations, innermost first
  profiles,    \* _scrape_state's profiles
  allProfiles, \* scrape_profiles' profiles
  raised,      \* the exception propagating out of process_profiles, or NONE
  use_apis,    \* DataSnatch.use_apis / ProfileAnalyzer.use_apis
  analyzed_profiles, \* process_profiles' analyzed_profiles
  saves,       \* the lists handed to save_profiles, in call order
  visualized,  \* number of visualize_profiles calls
  reports,     \* number of create_profile_report calls
  arg,         \* the dict calculate_authenticity_score is called on by itself
  result,      \* what that call returned, NONE before it
  fetchLog,    \* history: the get_page_content calls of this crawl
  profilePages,\* history: the page each entry of profiles was parsed from
  web,         \* history: the resolved links of the pages fetched in this crawl
  crawlLog,    \* history: the state and the result of each _scrape_state call
  site,        \* the website crawled: the hrefs its pages carry and the
               \* statuses its server answers with
  args         \* the parsed command line (main's args), its depth option

crawlVars == <<visited_urls, stack, profiles, fetchLog, profilePages, web>>
pipeVars == <<use_apis, analyzed_profiles, saves, visualized, reports>>
funVars == <<arg, result>>
envVars == <<site, args>>
vars == <<pc, max_depth, session, opened, states, stateIdx, visited_urls,
          stack, profiles, allProfiles, raised, fetchLog, profilePages, web,
          use_apis, analyzed_profiles, saves, visualized, reports, arg, result,
          crawlLog, site, args>>

\* every URL the crawl of this site can name
Urls == {BaseUrl} \cup {Resolve(h) : h \in site.hrefs}

\* the anchors a fetched page may carry, in document order: up to MaxLinks
\* of them, no href twice on one page
LinkLists ==
  {q \in SeqsUpTo(site.hrefs, MaxLinks) : \A i, j \in 1..Len(q) : q[i] = q[j] => i = j}

\* ------------------------------------------------------------ the records
\* parse_profile's dict, the keys the analysis reads (age, date, message and
\* metadata are carried along unread).  A missing element gives None.
ValidPhone == "+1 555-123-4567"
ShortPhone == "12-34"

MkProfile(n, p, l, i) == [name |-> n, phone |-> p, location |-> l, images |-> i]

ParsedRecords ==
  { MkProfile("n", ValidPhone, "loc", <<"img1">>),
    MkProfile("n", ShortPhone, "", <<>>),
    MkProfile(NONE, NONE, NONE, <<>>) }

\* ---------------------------------------------------------------- numbers
\* Scores are exact fractions <<numerator, denominator>> in lowest terms.
RECURSIVE GCD(_, _)
GCD(a, b) == IF b = 0 THEN a ELSE GCD(b, a % b)

Rat(n, d) == LET g == GCD(n, d) IN <<n \div g, d \div g>>
RatAdd(x, y) == Rat(x[1] * y[2] + y[1] * x[2], x[2] * y[2])
RatMul(x, y) == Rat(x[1] * y[1], x[2] * y[2])
RatDivInt(x, k) == Rat(x[1], x[2] * k)
RatLeq(x, y) == x[1] * y[2] <= y[1] * x[2]
RatMin(x, y) == IF RatLeq(x, y) THEN x ELSE y
Zero == Rat(0, 1)
One == Rat(1, 1)

RECURSIVE RatSum(_)
RatSum(q) == IF q = <<>> THEN Zero ELSE RatAdd(Head(q), RatSum(Tail(q)))

QualityLevels == {Rat(k, QualitySteps) : k \in 0..QualitySteps}

\* ------------------------------------------------------------ the analyzer
\* dicts are functions on their keys
Put(d, k, v) == [x \in DOMAIN d \cup {k} |-> IF x = k THEN v ELSE d[x]]
HasKey(d, k) == k \in DOMAIN d

\* a call's outcome: the value returned, or the exception raised
Returns(v) == [exc |-> NONE, val |-> v]
Raises(e) == [exc |-> e]

\* self.phone_pattern.match(phone): a ten-digit number, optional +1
PhoneMatches(phone) == phone = ValidPhone

\* What one image gives: download_image returns None (downloaded = FALSE) or
\* the decoded array; face and quality are what detect_face and
\* assess_image_quality return on that array.
ImageOutcomes ==
  [downloaded : BOOLEAN, face : BOOLEAN, quality : QualityLevels]

\* `if image_data:` on the value download_image returned: None is false, a
\* decoded colour image is an array of three or more elements, whose truth
\* value numpy refuses with ValueError
ImageDataTruth(o) == IF ~o.downloaded THEN "false" ELSE "ValueError"

EmptyImageAnalysis ==
  [face_detected |-> FALSE, face_encodings |-> <<>>, image_quality |-> <<>>,
   reverse_image_results |-> <<>>]

\* the body of the for loop of analyze_images, on one image
AnalyzeImage(analysis, url, o) ==
  CASE ImageDataTruth(o) = "true" ->
         [analysis EXCEPT
            !.face_detected = @ \/ o.face,
            !.face_encodings = IF o.face THEN Append(@, url) ELSE @,
            !.image_quality = Append(@, o.quality)]
    [] ImageDataTruth(o) = "false" -> analysis
    [] ImageDataTruth(o) = "ValueError" -> analysis   \* except Exception: logged

RECURSIVE AnalyzeImagesFrom(_, _, _)
AnalyzeImagesFrom(analysis, image_urls, outcomes) ==
  IF image_urls = <<>> THEN analysis
  ELSE AnalyzeImagesFrom(AnalyzeImage(analysis, Head(image_urls), Head(outcomes)),
                         Tail(image_urls), Tail(outcomes))

analyze_images(image_urls, outcomes) ==
  AnalyzeImagesFrom(EmptyImageAnalysis, image_urls, outcomes)

\* analyze_phone: "TypeError" when match() is handed None.  The carrier and
\* online lookups are placeholders returning None and empty lists.
analyze_phone(phone) ==
  IF phone = NONE THEN Raises("TypeError")
  ELSE Returns([is_valid |-> PhoneMatches(phone), carrier |-> NONE, location |-> NONE,
                associated_names |-> <<>>, associated_profiles |-> <<>>])

\* geocode_location is a placeholder returning None with and without APIs
geocode_location(location, apis) == NONE

analyze_location(location, apis) ==
  LET coordinates == IF apis THEN geocode_location(location, apis) ELSE NONE
  IN  [is_valid |-> apis /\ coordinates # NONE,
       coordinates |-> coordinates,
       associated_profiles |-> <<>>]

\* the face weight mistyped
weightsSkewed ==
  [face_detected |-> Rat(35, 100), phone_valid |-> Rat(20, 100),
   location_valid |-> Rat(20, 100), image_quality |-> Rat(15, 100),
   profile_completeness |-> Rat(15, 100)]

weights ==
  [face_detected |-> Rat(30, 100), phone_valid |-> Rat(20, 100),
   location_valid |-> Rat(20, 100), image_quality |-> Rat(15, 100),
   profile_completeness |-> Rat(15, 100)]

\* profile.get(akey, {}).get(flag)
Flag(profile, akey, flag) ==
  HasKey(profile, akey) /\ HasKey(profile[akey], flag) /\ profile[akey][flag]

\* profile.get('image_analysis', {}).get('image_quality', [])
ImageQualities(profile) ==
  IF HasKey(profile, "image_analysis") /\ HasKey(profile.image_analysis, "image_quality")
  THEN profile.image_analysis.image_quality ELSE <<>>

\* bool(profile.get(field)) for the four required fields
FieldTruth(profile, field) ==
  /\ HasKey(profile, field)
  /\ IF field = "images" THEN profile[field] # <<>>
     ELSE profile[field] \notin {NONE, ""}

required_fields == {"name", "phone", "location", "images"}

Completeness(profile) ==
  Rat(Cardinality({f \in required_fields : FieldTruth(profile, f)}),
      Cardinality(required_fields))

\* sum(image_qualities) without the division by len
QualityTermSum(profile) ==
  LET q == ImageQualities(profile)
  IN  IF q # <<>> THEN RatMul(RatSum(q), weights.image_quality) ELSE Zero

QualityTerm(profile) ==
  LET q == ImageQualities(profile)
  IN  IF q # <<>> THEN RatMul(RatDivInt(RatSum(q), Len(q)), weights.image_quality)
      ELSE Zero

calculate_authenticity_score(profile) ==
  LET s1 == IF Flag(profile, "image_analysis", "face_detected")
            THEN weights.face_detected ELSE Zero
      s2 == IF Flag(profile, "phone_analysis", "is_valid")
            THEN RatAdd(s1, weights.phone_valid) ELSE s1
      s3 == IF Flag(profile, "location_analysis", "is_valid")
            THEN RatAdd(s2, weights.location_valid) ELSE s2
      s4 == RatAdd(s3, QualityTerm(profile))
      s5 == RatAdd(s4, RatMul(Completeness(profile), weights.profile_completeness))
  IN  RatMin(One, s5)

\* analyze_profile: the enriched dict, or the exception that leaves it
analyze_profile(profile, outcomes, apis) ==
  LET e1 == IF HasKey(profile, "images")
            THEN Put(profile, "image_analysis", analyze_images(profile.images, outcomes))
            ELSE profile
      pa == analyze_phone(profile.phone)
      e2 == IF HasKey(profile, "phone") THEN Put(e1, "phone_analysis", pa.val) ELSE e1
      e3 == IF HasKey(profile, "location")
            THEN Put(e2, "location_analysis", analyze_location(profile.location, apis))
            ELSE e2
  IN  IF HasKey(profile, "phone") /\ pa.exc # NONE THEN Raises(pa.exc)
      ELSE Returns(Put(e3, "authenticity_score", calculate_authenticity_score(e3)))

\* ------------------------------------------------------------- the crawl
Frame(u, d, st, ls) == [url |-> u, depth |-> d, st |-> st, links |-> ls]

Top == Head(stack)

\* the depth test off by one
SkipPageLate(url, depth) == depth > max_depth + 1 \/ url \in visited_urls

\* the guard of crawl_page
SkipPage(url, depth) == depth > max_depth \/ url \in visited_urls

\* the guard of the link loop
FollowLink(href) == StartsWithBase(href) /\ href \notin visited_urls

\* visited_urls.add(url), forgotten
CommitNothing(url) == visited_urls

\* visited_urls.add(url)
Commit(url) == visited_urls \cup {url}

\* crawl_page entry: return at once, or commit to the URL
EnterPage ==
  /\ pc = "crawl" /\ stack # <<>> /\ Top.st = "entry"
  /\ IF SkipPage(Top.url, Top.depth)
     THEN /\ stack' = Tail(stack)
          /\ UNCHANGED visited_urls
     ELSE /\ visited_urls' = Commit(Top.url)
          /\ stack' = <<Frame(Top.url, Top.depth, "fetch", <<>>)>> \o Tail(stack)
  /\ UNCHANGED <<pc, max_depth, session, opened, states, stateIdx, profiles,
                 allProfiles, crawlLog, raised, fetchLog, profilePages, web>>
  /\ UNCHANGED <<pipeVars, funVars, envVars>>

\* the caller of the innermost activation (the seed has none: itself)
Caller == IF Len(stack) > 1 THEN stack[2].url ELSE Top.url

\* the status the server answered a fetch with: 200, 404, or 0 when no
\* answer came
Ok200 == 200
NotFound404 == 404
NoStatus == 0

LogFetch(ok, status) ==
  Append(fetchLog, [url |-> Top.url, depth |-> Top.depth, ok |-> ok, via |-> Caller,
                    status |-> status])

\* profiles.insert(0, profile_data) in place of append
RecordProfileFirst(rec) ==
  /\ profiles' = <<rec>> \o profiles
  /\ profilePages' = <<Top.url>> \o profilePages

\* profiles.append(profile_data), before the link loop
RecordProfile(rec) ==
  /\ profiles' = Append(profiles, rec)
  /\ profilePages' = Append(profilePages, Top.url)

\* get_page_content returned the body of the answer, whatever its status:
\* parse, record the profile, start the link loop
FetchOk ==
  /\ pc = "crawl" /\ stack # <<>> /\ Top.st = "fetch"
  /\ session = "open"
  /\ \E links \in LinkLists :
       /\ stack' = <<Frame(Top.url, Top.depth, "links", links)>> \o Tail(stack)
       /\ web' = [u \in DOMAIN web \cup {Top.url} |->
                    IF u = Top.url THEN [i \in 1..Len(links) |-> Resolve(links[i])]
                    ELSE web[u]]
  /\ \E status \in site.statuses : fetchLog' = LogFetch(TRUE, status)
  /\ IF IsProfileUrl(Top.url)
     THEN \E rec \in ParsedRecords : RecordProfile(rec)
     ELSE UNCHANGED <<profiles, profilePages>>
  /\ UNCHANGED <<pc, max_depth, session, opened, states, stateIdx, visited_urls,
                 allProfiles, crawlLog, raised>>
  /\ UNCHANGED <<pipeVars, funVars, envVars>>

\* the exception caught around the first crawl_page call only
AfterErrorAbort == <<>>

\* what the except clause of crawl_page leaves of the activations
AfterError == Tail(stack)

\* get_page_content raised (timeout, connection error): logged, this
\* activation ends
FetchFail ==
  /\ pc = "crawl" /\ stack # <<>> /\ Top.st = "fetch"
  /\ fetchLog' = LogFetch(FALSE, NoStatus)
  /\ stack' = AfterError
  /\ UNCHANGED <<pc, max_depth, session, opened, states, stateIdx, visited_urls,
                 profiles, allProfiles, crawlLog, raised, profilePages, web>>
  /\ UNCHANGED <<pipeVars, funVars, envVars>>

\* one turn of the link loop
NextLink ==
  /\ pc = "crawl" /\ stack # <<>> /\ Top.st = "links" /\ Top.links # <<>>
  /\ LET href == Resolve(Head(Top.links))
         rest == Frame(Top.url, Top.depth, "links", Tail(Top.links))
     IN  stack' = IF FollowLink(href)
                  THEN <<Frame(href, Top.depth + 1, "entry", <<>>), rest>> \o Tail(stack)
                  ELSE <<rest>> \o Tail(stack)
  /\ UNCHANGED <<pc, max_depth, session, opened, states, stateIdx, visited_urls,
                 profiles, allProfiles, crawlLog, raised, fetchLog, profilePages, web>>
  /\ UNCHANGED <<pipeVars, funVars, envVars>>

\* the link loop is over: crawl_page returns
ReturnPage ==
  /\ pc = "crawl" /\ stack # <<>> /\ Top.st = "links" /\ Top.links = <<>>
  /\ stack' = Tail(stack)
  /\ UNCHANGED <<pc, max_depth, session, opened, states, stateIdx, visited_urls,
                 profiles, allProfiles, crawlLog, raised, fetchLog, profilePages, web>>
  /\ UNCHANGED <<pipeVars, funVars, envVars>>

\* --------------------------------------------------------- scrape_profiles
\* await self.initialize() returned: the driver or the HTTP session exists
InitializeOk ==
  /\ pc = "initialize"
  /\ session' = "open" /\ opened' = opened + 1
  /\ pc' = "states"
  /\ UNCHANGED <<max_depth, states, stateIdx, allProfiles, crawlLog, raised>>
  /\ UNCHANGED crawlVars
  /\ UNCHANGED <<pipeVars, funVars, envVars>>

\* await self.initialize() raised (no driver): on to the finally clause
InitializeFail ==
  /\ pc = "initialize"
  /\ raised' = "WebDriverException"
  /\ pc' = "finally"
  /\ UNCHANGED <<max_depth, session, opened, states, stateIdx, allProfiles, crawlLog>>
  /\ UNCHANGED crawlVars
  /\ UNCHANGED <<pipeVars, funVars, envVars>>

\* visited_urls kept on the scraper object, not made anew for each call
CarriedVisited == visited_urls

\* visited_urls = set(), a local of _scrape_state
NewVisited == {}

\* for state in states: the call of _scrape_state, up to the first crawl_page
ScrapeState ==
  /\ pc = "states" /\ stateIdx < Len(states)
  /\ stateIdx' = stateIdx + 1
  /\ profiles' = <<>> /\ visited_urls' = NewVisited
  /\ stack' = <<Frame(BaseUrl, 0, "entry", <<>>)>>
  /\ fetchLog' = <<>> /\ profilePages' = <<>> /\ web' = <<>>
  /\ pc' = "crawl"
  /\ UNCHANGED <<max_depth, session, opened, states, allProfiles, crawlLog, raised>>
  /\ UNCHANGED <<pipeVars, funVars, envVars>>

\* profiles.extend(state_profiles)
Extend(all, state_profiles) == all \o state_profiles

\* _scrape_state returns profiles; profiles.extend(state_profiles).  The
\* history of the crawl ends with it; what its local visited_urls held is
\* left behind, no later step reads it before ScrapeState makes a new one.
ScrapeStateReturn ==
  /\ pc = "crawl" /\ stack = <<>>
  /\ allProfiles' = Extend(allProfiles, profiles)
  /\ crawlLog' = Append(crawlLog, [state |-> states[stateIdx], profiles |-> profiles,
                                   fetches |-> Len(fetchLog)])
  /\ pc' = "states"
  /\ profiles' = <<>>
  /\ fetchLog' = <<>> /\ profilePages' = <<>> /\ web' = <<>>
  /\ UNCHANGED <<max_depth, session, opened, states, stateIdx, raised, stack,
                 visited_urls>>
  /\ UNCHANGED <<pipeVars, funVars, envVars>>

\* the loop over states is over
StatesDone ==
  /\ pc = "states" /\ stateIdx = Len(states)
  /\ pc' = "finally"
  /\ UNCHANGED <<max_depth, session, opened, states, stateIdx, allProfiles, crawlLog, raised>>
  /\ UNCHANGED crawlVars
  /\ UNCHANGED <<pipeVars, funVars, envVars>>

\* close() forgotten
CloseNothing == session

\* BaseScraper.close: quits the driver / closes the session if there is one
CloseSession == IF session = "open" THEN "closed" ELSE session

\* finally: await self.close(); then return profiles, or re-raise
Finally ==
  /\ pc = "finally"
  /\ session' = CloseSession
  /\ pc' = IF raised # NONE THEN "failed" ELSE "analyze"
  /\ UNCHANGED <<max_depth, opened, states, stateIdx, allProfiles, crawlLog, raised>>
  /\ UNCHANGED crawlVars
  /\ UNCHANGED <<pipeVars, funVars, envVars>>

\* -------------------------------------------------------- process_profiles
scrapeVars == <<max_depth, session, opened, states, stateIdx, allProfiles, crawlLog>>

\* for profile in profiles: analyzed_profiles.append(analyze_profile(profile));
\* an exception leaves the loop for the except clause, which logs and re-raises
AnalyzeProfile ==
  /\ pc = "analyze" /\ Len(analyzed_profiles) < Len(allProfiles)
  /\ LET profile == allProfiles[Len(analyzed_profiles) + 1]
     IN  \E outcomes \in [1..Len(profile.images) -> ImageOutcomes] :
           LET r == analyze_profile(profile, outcomes, use_apis)
           IN  IF r.exc # NONE
               THEN /\ raised' = r.exc
                    /\ pc' = "failed"
                    /\ UNCHANGED analyzed_profiles
               ELSE /\ analyzed_profiles' = Append(analyzed_profiles, r.val)
                    /\ UNCHANGED <<pc, raised>>
  /\ UNCHANGED <<scrapeVars, crawlVars, funVars, envVars, use_apis, saves, visualized, reports>>

\* self.scraper.save_profiles(analyzed_profiles)
SaveProfiles ==
  /\ pc = "analyze" /\ Len(analyzed_profiles) = Len(allProfiles)
  /\ saves' = Append(saves, analyzed_profiles)
  /\ pc' = "visualize"
  /\ UNCHANGED <<scrapeVars, crawlVars, funVars, envVars, raised, use_apis,
                 analyzed_profiles, visualized, reports>>

\* self.visualizer.visualize_profiles(analyzed_profiles)
VisualizeProfiles ==
  /\ pc = "visualize"
  /\ visualized' = visualized + 1
  /\ pc' = "report"
  /\ UNCHANGED <<scrapeVars, crawlVars, funVars, envVars, raised, use_apis,
                 analyzed_profiles, saves, reports>>

\* for profile in analyzed_profiles: create_profile_report(profile)
CreateReports ==
  /\ pc = "report"
  /\ reports' = reports + Len(analyzed_profiles)
  /\ pc' = "done"
  /\ UNCHANGED <<scrapeVars, crawlVars, funVars, envVars, raised, use_apis,
                 analyzed_profiles, saves, visualized>>

\* parser.add_argument('--depth', type=int, default=2)
DefaultDepth == 2

Init ==
  /\ pc = "initialize"
  /\ max_depth \in 0..MaxDepthBound
  /\ session = "none" /\ opened = 0
  /\ states = <<"all">>
  /\ stateIdx = 0
  /\ visited_urls = {} /\ stack = <<>> /\ profiles = <<>>
  /\ allProfiles = <<>>
  /\ raised = NONE
  /\ fetchLog = <<>> /\ profilePages = <<>> /\ web = <<>>
  /\ use_apis \in BOOLEAN
  /\ analyzed_profiles = <<>> /\ saves = <<>> /\ visualized = 0 /\ reports = 0
  /\ arg = NONE /\ result = NONE
  /\ crawlLog = <<>>
  /\ site = [hrefs |-> Hrefs, statuses |-> {Ok200}]
  /\ args = [depth |-> DefaultDepth]

Next ==
  \/ InitializeOk \/ InitializeFail
  \/ ScrapeState \/ ScrapeStateReturn \/ StatesDone \/ Finally
  \/ EnterPage \/ FetchOk \/ FetchFail \/ NextLink \/ ReturnPage
  \/ AnalyzeProfile \/ SaveProfiles \/ VisualizeProfiles \/ CreateReports

Spec == Init /\ [][Next]_vars

\* ------------------------------------------------- the pipeline, other sites
Sites ==
  { [hrefs |-> SameTargetHrefs, statuses |-> {Ok200}],
    [hrefs |-> PrefixHrefs, statuses |-> {Ok200}],
    [hrefs |-> ListingHrefs, statuses |-> {Ok200, NotFound404}] }

InitSites ==
  /\ pc = "initialize"
  /\ max_depth \in 0..MaxDepthBound
  /\ session = "none" /\ opened = 0
  /\ states = <<"all">>
  /\ stateIdx = 0
  /\ visited_urls = {} /\ stack = <<>> /\ profiles = <<>>
  /\ allProfiles = <<>>
  /\ raised = NONE
  /\ fetchLog = <<>> /\ profilePages = <<>> /\ web = <<>>
  /\ use_apis \in BOOLEAN
  /\ analyzed_profiles = <<>> /\ saves = <<>> /\ visualized = 0 /\ reports = 0
  /\ arg = NONE /\ result = NONE
  /\ crawlLog = <<>>
  /\ site \in Sites
  /\ args = [depth |-> DefaultDepth]

SpecSites == InitSites /\ [][Next]_vars

\* the pipeline on the site of three pages, run without the external APIs
InitGraph ==
  /\ pc = "initialize"
  /\ max_depth \in 0..MaxDepthBound
  /\ session = "none" /\ opened = 0
  /\ states = <<"all">>
  /\ stateIdx = 0
  /\ visited_urls = {} /\ stack = <<>> /\ profiles = <<>>
  /\ allProfiles = <<>>
  /\ raised = NONE
  /\ fetchLog = <<>> /\ profilePages = <<>> /\ web = <<>>
  /\ use_apis = FALSE
  /\ analyzed_profiles = <<>> /\ saves = <<>> /\ visualized = 0 /\ reports = 0
  /\ arg = NONE /\ result = NONE
  /\ crawlLog = <<>>
  /\ site = [hrefs |-> GraphHrefs, statuses |-> {Ok200}]
  /\ args = [depth |-> DefaultDepth]

SpecGraph == InitGraph /\ [][Next]_vars

\* scrape_profiles called with one to MaxStates states, and the rest of the
\* pipeline, on the site with a listing page, run without the external APIs
StateNames == {"all", "CA"}

StateLists == {q \in SeqsUpTo(StateNames, MaxStates) : q # <<>>}

InitStates ==
  /\ pc = "initialize"
  /\ max_depth \in 0..MaxDepthBound
  /\ session = "none" /\ opened = 0
  /\ states \in StateLists
  /\ stateIdx = 0
  /\ visited_urls = {} /\ stack = <<>> /\ profiles = <<>>
  /\ allProfiles = <<>>
  /\ raised = NONE
  /\ fetchLog = <<>> /\ profilePages = <<>> /\ web = <<>>
  /\ use_apis = FALSE
  /\ analyzed_profiles = <<>> /\ saves = <<>> /\ visualized = 0 /\ reports = 0
  /\ arg = NONE /\ result = NONE
  /\ crawlLog = <<>>
  /\ site = [hrefs |-> ListingHrefs, statuses |-> {Ok200}]
  /\ args = [depth |-> DefaultDepth]

SpecStates == InitStates /\ [][Next]_vars

\* ------------------------------------------------------------------- main
\* def __init__(self, base_url: str, max_depth: int = 2)
DefaultMaxDepth == 2

\* main: the command line is parsed, DataSnatch(args.url, use_apis=...) makes
\* ProfileScraper(base_url), and process_profiles(args.states) runs
InitMain ==
  /\ pc = "initialize"
  /\ args \in [depth : 0..MaxDepthBound]
  /\ max_depth = DefaultMaxDepth
  /\ session = "none" /\ opened = 0
  /\ states = <<"all">>
  /\ stateIdx = 0
  /\ visited_urls = {} /\ stack = <<>> /\ profiles = <<>>
  /\ allProfiles = <<>>
  /\ raised = NONE
  /\ fetchLog = <<>> /\ profilePages = <<>> /\ web = <<>>
  /\ use_apis \in BOOLEAN
  /\ analyzed_profiles = <<>> /\ saves = <<>> /\ visualized = 0 /\ reports = 0
  /\ arg = NONE /\ result = NONE
  /\ crawlLog = <<>>
  /\ site = [hrefs |-> Hrefs, statuses |-> {Ok200}]

SpecMain == InitMain /\ [][Next]_vars

\* =========================================== calculate_authenticity_score
\* The enriched dicts the score is computed on: every base record, with each
\* analysis present or not.
BaseProfiles ==
  { MkProfile(n, p, l, i) :
      n \in {NONE, "n"}, p \in {NONE, ShortPhone, ValidPhone},
      l \in {"", "loc"}, i \in {<<>>, <<"img1">>} }

Absent == [present |-> FALSE]
Present(v) == [present |-> TRUE, val |-> v]
WithOpt(d, k, o) == IF o.present THEN Put(d, k, o.val) ELSE d

\* quality lists, each multiset of levels once (in ascending order)
QualityLists ==
  {q \in SeqsUpTo(QualityLevels, MaxImages) :
     \A i \in 1..(Len(q) - 1) : RatLeq(q[i], q[i + 1])}

ImageAnalyses ==
  { [EmptyImageAnalysis EXCEPT !.face_detected = f, !.image_quality = q] :
      f \in BOOLEAN, q \in QualityLists }
ValidityAnalyses == { [is_valid |-> b] : b \in BOOLEAN }

ImageOpts == {Absent} \cup {Present(a) : a \in ImageAnalyses}
ValidityOpts == {Absent} \cup {Present(a) : a \in ValidityAnalyses}

Enrich(b, ia, pa, la) ==
  WithOpt(WithOpt(WithOpt(b, "image_analysis", ia), "phone_analysis", pa),
          "location_analysis", la)

EnrichedRecords ==
  { Enrich(b, ia, pa, la) :
      b \in BaseProfiles, ia \in ImageOpts, pa \in ValidityOpts, la \in ValidityOpts }

InitScore ==
  /\ pc = "call"
  /\ arg \in EnrichedRecords
  /\ result = NONE
  /\ max_depth = 0 /\ session = "none" /\ opened = 0
  /\ states = <<>> /\ stateIdx = 0
  /\ visited_urls = {} /\ stack = <<>> /\ profiles = <<>>
  /\ allProfiles = <<>> /\ raised = NONE
  /\ fetchLog = <<>> /\ profilePages = <<>> /\ web = <<>>
  /\ use_apis = FALSE
  /\ analyzed_profiles = <<>> /\ saves = <<>> /\ visualized = 0 /\ reports = 0
  /\ crawlLog = <<>>
  /\ site = [hrefs |-> {}, statuses |-> {}]
  /\ args = [depth |-> DefaultDepth]

\* result = calculate_authenticity_score(arg)
ScoreCall ==
  /\ pc = "call"
  /\ result' = calculate_authenticity_score(arg)
  /\ pc' = "returned"
  /\ UNCHANGED <<scrapeVars, crawlVars, pipeVars, envVars, raised, arg>>

NextScore == ScoreCall

SpecScore == InitScore /\ [][NextScore]_vars

\* the five contributions, read off the record
FaceDetected(e) == HasKey(e, "image_analysis") /\ e.image_analysis.face_detected
PhoneValid(e) == HasKey(e, "phone_analysis") /\ e.phone_analysis.is_valid
LocationValid(e) == HasKey(e, "location_analysis") /\ e.location_analysis.is_valid
QualitiesOf(e) == IF HasKey(e, "image_analysis") THEN e.image_analysis.image_quality ELSE <<>>
MeanQuality(e) ==
  LET q == QualitiesOf(e)
  IN  IF q = <<>> THEN Zero
      ELSE LET t == RatSum(q) IN Rat(t[1], t[2] * Len(q))
NonEmptyFields(e) ==
  (IF e.name \in {NONE, ""} THEN 0 ELSE 1) + (IF e.phone \in {NONE, ""} THEN 0 ELSE 1)
    + (IF e.location \in {NONE, ""} THEN 0 ELSE 1) + (IF Len(e.images) = 0 THEN 0 ELSE 1)

Bit(b) == IF b THEN 1 ELSE 0

\* min(1, 0.30 f + 0.20 p + 0.20 l + 0.15 mean + 0.15 n/4), over the common
\* denominator 400 * d where mean = m/d
ReferenceScore(e) ==
  LET m == MeanQuality(e)
      num == (30 * Bit(FaceDetected(e)) + 20 * Bit(PhoneValid(e))
                + 20 * Bit(LocationValid(e))) * 4 * m[2]
               + 15 * 4 * m[1] + 15 * NonEmptyFields(e) * m[2]
      den == 400 * m[2]
  IN  IF num >= den THEN One ELSE Rat(num, den)

FullRecord(e) ==
  /\ NonEmptyFields(e) = 4 /\ PhoneValid(e) /\ FaceDetected(e) /\ LocationValid(e)
  /\ MeanQuality(e) = One

\* C6: the score is the reference formula's value, lies in [0,1], and is
\* exactly 1 on the record with all four fields, a valid phone, a detected
\* face, mean quality 1 and a valid location.
C6_ScoreIsWeightedSum ==
  pc = "returned" =>
    /\ result = ReferenceScore(arg)
    /\ RatLeq(Zero, result) /\ RatLeq(result, One)
    /\ FullRecord(arg) => result = One

\* the score of a full record has been computed
C6_Witness == pc = "returned" /\ FullRecord(arg) /\ result = One

\* C7: the score does not decrease when one of the five contributions goes
\* up and none goes down, and the record with no name, no phone, no location
\* and no images scores 0.
Contribution(e) ==
  [face |-> Bit(FaceDetected(e)), phone |-> Bit(PhoneValid(e)),
   location |-> Bit(LocationValid(e)), quality |-> MeanQuality(e),
   completeness |-> NonEmptyFields(e)]

NoLess(c, d) ==
  /\ c.face <= d.face /\ c.phone <= d.phone /\ c.location <= d.location
  /\ RatLeq(c.quality, d.quality) /\ c.completeness <= d.completeness

\* the records that differ from e in one analysis, or in the base fields
Variants(e) ==
  LET base == MkProfile(e.name, e.phone, e.location, e.images)
      ia == IF HasKey(e, "image_analysis") THEN Present(e.image_analysis) ELSE Absent
      pa == IF HasKey(e, "phone_analysis") THEN Present(e.phone_analysis) ELSE Absent
      la == IF HasKey(e, "location_analysis") THEN Present(e.location_analysis) ELSE Absent
  IN  {Enrich(base, x, pa, la) : x \in ImageOpts}
        \cup {Enrich(base, ia, x, la) : x \in ValidityOpts}
        \cup {Enrich(base, ia, pa, x) : x \in ValidityOpts}
        \cup {Enrich(b, ia, pa, la) : b \in BaseProfiles}

EmptyRecord(e) ==
  /\ NonEmptyFields(e) = 0
  /\ ~FaceDetected(e) /\ ~PhoneValid(e) /\ ~LocationValid(e) /\ QualitiesOf(e) = <<>>

C7_ScoreMonotone ==
  pc = "returned" =>
    /\ \A e \in Variants(arg) :
         NoLess(Contribution(arg), Contribution(e))
           => RatLeq(result, calculate_authenticity_score(e))
    /\ EmptyRecord(arg) => result = Zero

\* a record scored below 1 that has a variant with a higher mean quality
C7_Witness ==
  /\ pc = "returned" /\ result # One
  /\ \E e \in Variants(arg) :
       /\ NoLess(Contribution(arg), Contribution(e))
       /\ Contribution(e).quality # Contribution(arg).quality
       /\ calculate_authenticity_score(e) # result

\* ====================================================== the crawl's claims
CrawlOver == pc = "crawl" /\ stack = <<>>

\* the link targets of a fetched page, and where a target first stands
LinksOf(u) == {web[u][k] : k \in 1..Len(web[u])}
FirstAt(u, v) == CHOOSE k \in 1..Len(web[u]) :
                   web[u][k] = v /\ \A m \in 1..(k - 1) : web[u][m] # v

FetchIdx == 1..Len(fetchLog)

\* C1: within one crawl no URL is fetched more than once, a URL whose fetch
\* failed included, and a URL is in visited_urls before its fetch starts.
C1_NoUrlFetchedTwice ==
  /\ \A i, j \in FetchIdx : fetchLog[i].url = fetchLog[j].url => i = j
  /\ \A k \in 1..Len(stack) :
       stack[k].st \in {"fetch", "links"} => stack[k].url \in visited_urls
  /\ \A i \in FetchIdx : fetchLog[i].url \in visited_urls

\* a page fetched later links to a URL whose fetch failed earlier
C1_Witness ==
  /\ CrawlOver
  /\ \E i, j \in FetchIdx :
       /\ i < j /\ ~fetchLog[i].ok /\ fetchLog[j].ok
       /\ fetchLog[i].url \in LinksOf(fetchLog[j].url)

\* C2: no page is fetched at a depth greater than max_depth, and a call of
\* crawl_page at a depth greater than max_depth leaves visited_urls unchanged.
DeepCall == pc = "crawl" /\ stack # <<>> /\ Top.st = "entry" /\ Top.depth > max_depth

C2_DepthBound ==
  /\ [](\A i \in FetchIdx : fetchLog[i].depth <= max_depth)
  /\ [][DeepCall => visited_urls' = visited_urls]_vars

\* a page fetched at depth max_depth linked to an in-scope URL that the crawl
\* ended without visiting
C2_Witness ==
  /\ CrawlOver
  /\ \E i \in FetchIdx :
       /\ fetchLog[i].ok /\ fetchLog[i].depth = max_depth
       /\ \E v \in LinksOf(fetchLog[i].url) : StartsWithBase(v) /\ v \notin visited_urls

\* C5: a fetch failure ends only its own branch: when the crawl is over every
\* in-scope link of every page fetched above the depth bound has been
\* visited, whatever failed before it, siblings are fetched in document
\* order, and every profile parsed is kept.
ProfileFetches == {i \in FetchIdx : fetchLog[i].ok /\ IsProfileUrl(fetchLog[i].url)}

C5_FailureStopsOneBranch ==
  /\ Len(profiles) = Cardinality(ProfileFetches)
  /\ CrawlOver =>
       \A i \in FetchIdx :
         (fetchLog[i].ok /\ fetchLog[i].depth < max_depth) =>
           \A v \in LinksOf(fetchLog[i].url) : StartsWithBase(v) => v \in visited_urls
  /\ \A i, j \in FetchIdx :
       (i < j /\ fetchLog[i].via = fetchLog[j].via /\ fetchLog[i].depth = fetchLog[j].depth
          /\ fetchLog[i].depth > 0)
         => FirstAt(fetchLog[i].via, fetchLog[i].url) < FirstAt(fetchLog[j].via, fetchLog[j].url)

\* after a failed fetch the next link of the same page was fetched and its
\* profile collected
C5_Witness ==
  /\ CrawlOver /\ profiles # <<>>
  /\ \E i, j \in FetchIdx :
       /\ i < j /\ ~fetchLog[i].ok /\ fetchLog[j].ok
       /\ fetchLog[j].via = fetchLog[i].via /\ fetchLog[j].depth = fetchLog[i].depth
       /\ fetchLog[j].url \in {profilePages[k] : k \in 1..Len(profilePages)}

\* C8: at most one session is opened, pages are fetched only while it is
\* open, and once scrape_profiles is left the session is not open: closed
\* if it was opened, never opened if initialize raised.
AfterScrape == pc \in {"analyze", "visualize", "report", "done", "failed"}

C8_SessionScoped ==
  /\ opened <= 1
  /\ (pc = "crawl" \/ stack # <<>> \/ fetchLog # <<>>) => session = "open" /\ opened = 1
  /\ AfterScrape => session # "open" /\ (session = "closed" <=> opened = 1)
  /\ session = "closed" => AfterScrape
  /\ (AfterScrape /\ opened = 0) => raised = "WebDriverException"

\* pages were fetched and the session was closed afterwards
C8_Witness == pc = "analyze" /\ session = "closed" /\ allProfiles # <<>>

\* C10: the records are in depth-first pre-order: in the order their pages
\* were fetched, a page's record before the records of the pages reached
\* through its links.
RECURSIVE ProfileUrlsOf(_)
ProfileUrlsOf(log) ==
  IF log = <<>> THEN <<>>
  ELSE LET e == Head(log)
       IN  (IF e.ok /\ IsProfileUrl(e.url) THEN <<e.url>> ELSE <<>>)
             \o ProfileUrlsOf(Tail(log))

PosOf(u) == CHOOSE k \in 1..Len(profilePages) : profilePages[k] = u

C10_DiscoveryOrder ==
  /\ Len(profiles) = Len(profilePages)
  /\ profilePages = ProfileUrlsOf(fetchLog)
  /\ \A i \in FetchIdx :
       LET e == fetchLog[i]
       IN  (e.ok /\ IsProfileUrl(e.url) /\ IsProfileUrl(e.via) /\ e.via # e.url)
             => PosOf(e.via) < PosOf(e.url)

\* two profile pages, the second reached through the first's links
C10_Witness ==
  /\ CrawlOver /\ Len(profilePages) = 2
  /\ \E i \in FetchIdx :
       fetchLog[i].ok /\ fetchLog[i].via = profilePages[1] /\ fetchLog[i].url = profilePages[2]

\* C9: the crawl terminates: every step of a crawl strictly decreases a
\* natural number (the URLs not yet fetched first, the work left on the
\* activations second), so no crawl runs forever, over cycles and self-links
\* included; visited_urls only grows while it runs; a call of crawl_page
\* either returns at once or adds a URL that was not visited; and there are
\* no more fetches than URLs within max_depth links of the seed.
RECURSIVE WithinHops(_)
WithinHops(k) ==
  IF k = 0 THEN {BaseUrl}
  ELSE LET near == WithinHops(k - 1)
       IN  near \cup {v \in UNION {LinksOf(u) : u \in near \cap DOMAIN web} :
                       StartsWithBase(v)}

AtEntry == pc = "crawl" /\ stack # <<>> /\ Top.st = "entry"

FrameWork(f) ==
  CASE f.st = "entry" -> 2
    [] f.st = "fetch" -> 1
    [] f.st = "links" -> 1 + 3 * Len(f.links)

RECURSIVE StackWork(_)
StackWork(st) == IF st = <<>> THEN 0 ELSE FrameWork(Head(st)) + StackWork(Tail(st))

WorkCap == (max_depth + 2) * (1 + 3 * MaxLinks) + 1

Unfetched ==
  Cardinality({u \in Urls : StartsWithBase(u)} \ visited_urls)
    + Cardinality({k \in 1..Len(stack) : stack[k].st = "fetch"})

CrawlMeasure == Unfetched * WorkCap + StackWork(stack)

C9_CrawlTerminates ==
  /\ [](CrawlMeasure >= 0 /\ StackWork(stack) < WorkCap)
  /\ [][(pc = "crawl" /\ pc' = "crawl") => CrawlMeasure' < CrawlMeasure]_vars
  /\ [][pc' = "crawl" => visited_urls \subseteq visited_urls']_vars
  /\ [][AtEntry =>
          \/ stack' = Tail(stack) /\ visited_urls' = visited_urls
          \/ Top.url \notin visited_urls /\ visited_urls' = visited_urls \cup {Top.url}]_vars
  /\ [](Len(fetchLog) <= Cardinality(WithinHops(max_depth)))

\* a crawl over a cycle of two pages and a page linking to itself has ended
C9_Witness ==
  /\ CrawlOver
  /\ \E u, v \in DOMAIN web :
       /\ u # v /\ v \in LinksOf(u) /\ u \in LinksOf(v) /\ v \in LinksOf(v)

\* ================================================ the pipeline's claims
\* C3: analyze_profile raises on no record the crawl returns, whatever the
\* images give.
C3_EnrichNeverRaises ==
  pc = "analyze" =>
    \A i \in 1..Len(allProfiles) :
      \A outcomes \in [1..Len(allProfiles[i].images) -> ImageOutcomes] :
        analyze_profile(allProfiles[i], outcomes, use_apis).exc = NONE

\* C4: a run whose session was opened ends with one save_profiles call that
\* is handed one scored entry for every profile the crawl returned.
RunOver == pc \in {"done", "failed"}

C4_EveryProfileScored ==
  (RunOver /\ opened = 1) =>
    /\ Len(saves) = 1
    /\ Len(saves[1]) = Len(allProfiles)
    /\ \A i \in 1..Len(saves[1]) : HasKey(saves[1][i], "authenticity_score")

\* ============================================== the claims on other sites
\* the normalized form of a URL: scheme, host and path, the fragment
\* stripped and the trailing slash dropped
Normalize(url) == MkUrl(url.origin, url.path, "")

\* C11: deduplication is on the normalized URL: of the URLs that differ only
\* by a fragment or a trailing slash at most one enters visited_urls, and at
\* most one is fetched.
C11_DedupNormalized ==
  /\ \A i, j \in FetchIdx :
       Normalize(fetchLog[i].url) = Normalize(fetchLog[j].url) => i = j
  /\ \A u, v \in visited_urls : Normalize(u) = Normalize(v) => u = v

\* C12: only URLs of the seed's origin are fetched; a URL of another host is
\* never fetched, one whose text starts with the seed URL included.
C12_SameOriginOnly ==
  /\ \A i \in FetchIdx : fetchLog[i].url.origin = BaseUrl.origin
  /\ \A u \in visited_urls : u.origin = BaseUrl.origin

\* C13: a fetch answered with a non-success status is a failed fetch: its
\* URL yields no record and no page is fetched through its links.
C13_NonSuccessIsSkip ==
  \A i \in FetchIdx :
    fetchLog[i].status = NotFound404 =>
      /\ ~fetchLog[i].ok
      /\ \A k \in 1..Len(profilePages) : profilePages[k] # fetchLog[i].url
      /\ \A j \in FetchIdx : j # i => fetchLog[j].via # fetchLog[i].url

\* C14: whatever the images give, image_quality holds the quality of each
\* downloaded image, in input order, and nothing for an image whose download
\* failed; face_encodings has an entry for each downloaded image with a
\* face; face_detected says whether some downloaded image had a face.
RECURSIVE DownloadedQualities(_)
DownloadedQualities(outcomes) ==
  IF outcomes = <<>> THEN <<>>
  ELSE (IF Head(outcomes).downloaded THEN <<Head(outcomes).quality>> ELSE <<>>)
         \o DownloadedQualities(Tail(outcomes))

WithFace(outcomes) == {k \in 1..Len(outcomes) : outcomes[k].downloaded /\ outcomes[k].face}

C14_ImagesIndependent ==
  pc = "analyze" =>
    \A i \in 1..Len(allProfiles) :
      \A outcomes \in [1..Len(allProfiles[i].images) -> ImageOutcomes] :
        LET a == analyze_images(allProfiles[i].images, outcomes)
        IN  /\ a.image_quality = DownloadedQualities(outcomes)
            /\ Len(a.face_encodings) = Cardinality(WithFace(outcomes))
            /\ a.face_detected <=> WithFace(outcomes) # {}

\* C15: a run whose session was opened calls save_profiles exactly once,
\* when every profile of the crawl has been analyzed and scored, and before
\* visualize_profiles and the reports.
C15_SaveOnceAfterScoring ==
  /\ Len(saves) <= 1
  /\ saves # <<>> =>
       /\ pc \in {"visualize", "report", "done"}
       /\ saves[1] = analyzed_profiles
       /\ Len(saves[1]) = Len(allProfiles)
       /\ \A i \in 1..Len(saves[1]) : HasKey(saves[1][i], "authenticity_score")
  /\ (visualized > 0 \/ reports > 0) => Len(saves) = 1
  /\ (RunOver /\ opened = 1) => Len(saves) = 1

\* C16: the crawl fetches no page at a depth greater than the --depth
\* option of the command line.
C16_DepthOptionEnforced == \A i \in FetchIdx : fetchLog[i].depth <= args.depth

\* C17 as stated: when no fetch fails, the crawl fetches exactly the in-scope
\* URLs whose shortest link distance from the seed is at most max_depth.
Fetched == {fetchLog[i].url : i \in FetchIdx}

NoFetchFailed == \A i \in FetchIdx : fetchLog[i].ok

CrawlDone == CrawlOver /\ fetchLog # <<>> /\ NoFetchFailed

Dist(u) == CHOOSE k \in 0..max_depth :
             u \in WithinHops(k) /\ \A m \in 0..(k - 1) : u \notin WithinHops(m)

AlongShortestPaths == \A i \in FetchIdx : fetchLog[i].depth = Dist(fetchLog[i].url)

RECURSIVE JoinProfiles(_)
JoinProfiles(log) ==
  IF log = <<>> THEN <<>> ELSE Head(log).profiles \o JoinProfiles(Tail(log))

AtCrawlStart ==
  pc = "crawl" /\ fetchLog = <<>> /\ Len(stack) = 1 /\ Top.st = "entry"

ScrapeReturned == pc = "finally" /\ raised = NONE

C18_CrawlPerState ==
  /\ Len(crawlLog) = IF pc = "crawl" THEN stateIdx - 1 ELSE stateIdx
  /\ stateIdx <= Len(states)
  /\ \A i \in 1..Len(crawlLog) :
       crawlLog[i].state = states[i] /\ crawlLog[i].fetches >= 1
  /\ allProfiles = JoinProfiles(crawlLog)
  /\ pc = "crawl" => session = "open" /\ opened = 1
  /\ AtCrawlStart => visited_urls = {} /\ Top.url = BaseUrl /\ Top.depth = 0
  /\ ScrapeReturned => Len(crawlLog) = Len(states) /\ opened = 1

\* two crawls for two different states have returned different lists, the
\* second after the first had visited pages
C18_Witness ==
  /\ ScrapeReturned /\ Len(states) = 2 /\ states[1] # states[2]
  /\ crawlLog[1].profiles # <<>> /\ crawlLog[2].profiles # <<>>
  /\ crawlLog[1].profiles # crawlLog[2].profiles
  /\ crawlLog[1].fetches > 1

====
